---- MODULE Spec2Model ----
(***************************************************************************)
(* The Trainer orchestration engine of                                     *)
(* omnivault/transformer/core/trainer.py: the callback registry            *)
(* (add_callback, set_callback, remove_callback, trigger_callbacks), the   *)
(* batch step, the epoch driver and the fit loop.                          *)
(*                                                                         *)
(* The model, the criterion, the optimizer, the scheduler and the data     *)
(* loaders are opaque collaborators.  A data loader is the finite sequence *)
(* of batches it yields; a batch is its size (inputs.size(0)) and the      *)
(* value loss.item() returns for it.  Losses are integers and a quotient   *)
(* is an exact fraction <<numerator, denominator>> in lowest terms, so     *)
(* floating-point rounding is not modelled.                                *)
(***************************************************************************)
EXTENDS Integers, Sequences, FiniteSets, TLC

VARIABLES
    callbacks,      \* self.callbacks: event name -> list of handlers
    calls,          \* history: the public registry calls made so far, with their outcome
    pc,             \* position of the running public call (fit / train_one_epoch / valid_one_epoch)
    err,            \* the exception that ended the running call, or "none"
    returned,       \* the value the finished call returned, None while there is none
    cfg,            \* the composer.trainer settings read in __init__, and the collaborators of state
    epoch_index,    \* self.epoch_index
    batch_index,    \* self.batch_index
    metrics_dict,   \* self.metrics_dict
    loaders,        \* self.train_dataloader / valid_dataloader / test_dataloader
    losses,         \* self.train_loss / valid_loss / test_loss
    frame,          \* the locals of the running epoch function
    it,             \* iterations of fit's for loop begun so far
    steps,          \* optimizer.step() and scheduler.step() calls made so far
    training,       \* the model's mode: TRUE after model.train(), FALSE after model.eval()
    log             \* history: the dispatches, handler invocations and collaborator calls, in order

vars == <<callbacks, calls, pc, err, returned, cfg, epoch_index, batch_index,
          metrics_dict, loaders, losses, frame, it, steps, training, log>>

(***************************************************************************)
(* Bounds of the model.                                                    *)
(***************************************************************************)
MaxEpochs == 2
MaxBatches == 2
MaxRichBatches == 3
MaxOps == 3
MaxDefaultOps == 2

(***************************************************************************)
(* Optional values: None is the empty tuple, a present value x is <<x>>.   *)
(***************************************************************************)
None == << >>
Some(x) == <<x>>

(***************************************************************************)
(* TrainerEvent: the fixed event names.                                    *)
(***************************************************************************)
ON_TRAIN_EPOCH_START == "on_train_epoch_start"
ON_TRAIN_EPOCH_END == "on_train_epoch_end"
ON_VALID_EPOCH_START == "on_valid_epoch_start"
ON_VALID_EPOCH_END == "on_valid_epoch_end"
ON_TRAIN_BATCH_START == "on_train_batch_start"
ON_TRAIN_BATCH_END == "on_train_batch_end"
ON_VALID_BATCH_START == "on_valid_batch_start"
ON_VALID_BATCH_END == "on_valid_batch_end"
ON_FIT_START == "on_fit_start"
ON_FIT_END == "on_fit_end"

TrainerEvent ==
    { ON_TRAIN_EPOCH_START, ON_TRAIN_EPOCH_END, ON_VALID_EPOCH_START, ON_VALID_EPOCH_END,
      ON_TRAIN_BATCH_START, ON_TRAIN_BATCH_END, ON_VALID_BATCH_START, ON_VALID_BATCH_END,
      ON_FIT_START, ON_FIT_END }

(***************************************************************************)
(* Handlers.  The six handlers __init__ installs come from                 *)
(* omnivault.transformer.core.callbacks; h1, h2 and h_fail are handlers a  *)
(* caller supplies.  A handler is its identity, the parameter names its    *)
(* signature declares (context parameters carry defaults, so a handler may *)
(* be called without them) and whether it raises.                          *)
(***************************************************************************)
DefaultHandlers ==
    { "save_state", "update_state", "log_on_fit_start", "log_on_train_epoch_start",
      "log_on_epoch_end", "log_on_fit_start_model_summary" }

UserHandlers == { "h1", "h2", "h_fail" }

DefaultSignature(callback) ==
    IF callback \in {"log_on_train_epoch_start", "log_on_epoch_end"}
    THEN {"trainer", "phase"}
    ELSE {"trainer"}

UserSignature(callback) ==
    CASE callback = "h1" -> {"trainer", "phase"}
      [] callback = "h2" -> {"trainer"}
      [] OTHER -> {"trainer", "phase", "epoch"}

\* inspect.signature(callback).parameters
Signature(callback) ==
    IF callback \in DefaultHandlers THEN DefaultSignature(callback) ELSE UserSignature(callback)

\* whether calling the handler raises
Raises(callback) == callback = "h_fail"

\* whether the handler, when called, unregisters itself from the event it is
\* called for: callback(trainer) runs trainer.remove_callback(event, callback)
Unregisters(callback) == callback = "h_once"

(***************************************************************************)
(* The registry operations.                                                *)
(***************************************************************************)
add_callback_front(cbs, event, callback) ==
    [cbs EXCEPT ![event] = <<callback>> \o @]

add_callback(cbs, event, callback) ==
    [cbs EXCEPT ![event] = Append(@, callback)]

set_callback_keep(cbs, event, callback) ==
    [cbs EXCEPT ![event] = <<callback>> \o @]

set_callback(cbs, event, callback) ==
    [cbs EXCEPT ![event] = <<callback>>]

\* list.remove(x): drops the first item equal to x, ValueError when there is none
list_remove_all(list, x) ==
    IF \E i \in 1..Len(list) : list[i] = x
    THEN [list |-> SelectSeq(list, LAMBDA y : y # x), err |-> "none"]
    ELSE [list |-> list, err |-> "ValueError"]

list_remove_silent(list, x) ==
    IF \E i \in 1..Len(list) : list[i] = x
    THEN LET i == CHOOSE k \in 1..Len(list) :
                      list[k] = x /\ \A j \in 1..(k-1) : list[j] # x
         IN [list |-> SubSeq(list, 1, i-1) \o SubSeq(list, i+1, Len(list)), err |-> "none"]
    ELSE [list |-> list, err |-> "none"]

list_remove(list, x) ==
    IF \E i \in 1..Len(list) : list[i] = x
    THEN LET i == CHOOSE k \in 1..Len(list) :
                      list[k] = x /\ \A j \in 1..(k-1) : list[j] # x
         IN [list |-> SubSeq(list, 1, i-1) \o SubSeq(list, i+1, Len(list)), err |-> "none"]
    ELSE [list |-> list, err |-> "ValueError"]

remove_callback(cbs, event, callback) ==
    LET r == list_remove(cbs[event], callback)
    IN [cbs |-> [cbs EXCEPT ![event] = r.list], err |-> r.err]

\* the keyword arguments a handler is called with (lines 165-169): all of them when
\* its signature names every one, none otherwise
PassedKwargsPartial(params, kwargs) == kwargs \cap params

PassedKwargs(params, kwargs) ==
    IF \A param \in kwargs : param \in params THEN kwargs ELSE {}

\* what the call of a handler leaves in the registry the dispatch is reading
HandlerBody(cbs, event, callback) ==
    IF Unregisters(callback) THEN remove_callback(cbs, event, callback).cbs ELSE cbs

\* the for loop of trigger_callbacks from list position i on; invoked is the
\* sequence of calls made so far.  The loop reads the live list by position.
RECURSIVE trigger_loop_swallow(_, _, _, _, _)
trigger_loop_swallow(cbs, event, kwargs, i, invoked) ==
    IF i > Len(cbs[event])
    THEN [cbs |-> cbs, invoked |-> invoked, err |-> "none"]
    ELSE LET callback == cbs[event][i]
             call == [h |-> callback, kw |-> PassedKwargs(Signature(callback), kwargs)]
         IN trigger_loop_swallow(HandlerBody(cbs, event, callback), event, kwargs, i + 1,
                                 Append(invoked, call))

RECURSIVE trigger_loop(_, _, _, _, _)
trigger_loop(cbs, event, kwargs, i, invoked) ==
    IF i > Len(cbs[event])
    THEN [cbs |-> cbs, invoked |-> invoked, err |-> "none"]
    ELSE LET callback == cbs[event][i]
             call == [h |-> callback, kw |-> PassedKwargs(Signature(callback), kwargs)]
         IN IF Raises(callback)
            THEN [cbs |-> cbs, invoked |-> Append(invoked, call), err |-> "HandlerError"]
            ELSE trigger_loop(HandlerBody(cbs, event, callback), event, kwargs, i + 1,
                              Append(invoked, call))

trigger_callbacks(cbs, event, kwargs) == trigger_loop(cbs, event, kwargs, 1, << >>)

InitCallbacksSummaryFirst ==
    LET c0 == [e \in TrainerEvent |-> << >>]
        c1 == add_callback(c0, ON_VALID_EPOCH_END, "save_state")
        c2 == add_callback(c1, ON_TRAIN_EPOCH_END, "update_state")
        c3 == add_callback(c2, ON_FIT_START, "log_on_fit_start_model_summary")
        c4 == add_callback(c3, ON_TRAIN_EPOCH_START, "log_on_train_epoch_start")
        c5 == add_callback(c4, ON_VALID_EPOCH_START, "log_on_train_epoch_start")
        c6 == add_callback(c5, ON_TRAIN_EPOCH_END, "log_on_epoch_end")
        c7 == add_callback(c6, ON_VALID_EPOCH_END, "log_on_epoch_end")
    IN add_callback(c7, ON_FIT_START, "log_on_fit_start")

\* the registry __init__ builds (lines 139-148)
InitCallbacks ==
    LET c0 == [e \in TrainerEvent |-> << >>]
        c1 == add_callback(c0, ON_VALID_EPOCH_END, "save_state")
        c2 == add_callback(c1, ON_TRAIN_EPOCH_END, "update_state")
        c3 == add_callback(c2, ON_FIT_START, "log_on_fit_start")
        c4 == add_callback(c3, ON_TRAIN_EPOCH_START, "log_on_train_epoch_start")
        c5 == add_callback(c4, ON_VALID_EPOCH_START, "log_on_train_epoch_start")
        c6 == add_callback(c5, ON_TRAIN_EPOCH_END, "log_on_epoch_end")
        c7 == add_callback(c6, ON_VALID_EPOCH_END, "log_on_epoch_end")
    IN add_callback(c7, ON_FIT_START, "log_on_fit_start_model_summary")

(***************************************************************************)
(* Data loaders and configurations.                                        *)
(***************************************************************************)
SeqsUpTo(S, n) == UNION { [1..k -> S] : k \in 0..n }

\* the batches of the fit runs: two kinds, of different size and loss
PlainBatches == { [size |-> 1, loss |-> 1], [size |-> 4, loss |-> 3] }

\* the batches of the epoch runs: every size and loss below
BatchSizes == {1, 4}
BatchLosses == {1, 2, 3}
RichBatches == [size : BatchSizes, loss : BatchLosses]

TrainLoaders == SeqsUpTo(PlainBatches, MaxBatches)
EvalLoaders == {None} \cup { Some(l) : l \in SeqsUpTo(PlainBatches, 1) }
RichLoaders == SeqsUpTo(RichBatches, MaxRichBatches)

\* bool(loader) of `if valid_loader:`: None is false, and a DataLoader, which
\* defines __len__ and no __bool__, is false when its length is 0
Truthy(loader) == loader # None /\ Len(loader[1]) > 0

\* composer.trainer (lines 118-134) and the collaborators of state (lines 105-110):
\* whether state.scheduler is present, and fault, the collaborator call that
\* raises: None, or <<op, n>> when the n-th call of op raises
Configs ==
    [ max_epochs : 0..MaxEpochs,
      scheduler : BOOLEAN,
      step_scheduler_on_batch_or_epoch : {"batch", "epoch"},
      clip_grad_norm : BOOLEAN,
      log_every_n_steps : {1, 2},
      mode : {"min"},
      fault : {None} ]

EpochConfigs ==
    { c \in Configs : /\ c.max_epochs >= 1
                      /\ c.scheduler
                      /\ c.step_scheduler_on_batch_or_epoch = "batch"
                      /\ ~c.clip_grad_norm
                      /\ c.log_every_n_steps = 1 }

\* the collaborator calls that may raise, and the n-th call that does
FaultOps == { "model.forward", "criterion", "loss.backward", "optimizer.step", "scheduler.step" }
Faults == {None} \cup { Some(<<op, n>>) : op \in FaultOps, n \in 1..MaxBatches }

\* the runs with user handlers and failing collaborators: one kind of batch
HookBatch == [size |-> 4, loss |-> 3]
HookTrainLoaders == { l \in SeqsUpTo({HookBatch}, MaxBatches) : Len(l) >= 1 }
HookEvalLoaders == { None, Some(<<HookBatch>>) }
HookHandlers == { "h1", "h_fail" }

HookConfigs ==
    [ max_epochs : {MaxEpochs},
      scheduler : {TRUE},
      step_scheduler_on_batch_or_epoch : {"batch", "epoch"},
      clip_grad_norm : {TRUE},
      log_every_n_steps : {1},
      mode : {"min"},
      fault : Faults ]

\* what a caller may hand to the constructor: also a granularity and a
\* comparison mode outside the documented ones
AnyConfigs ==
    [ max_epochs : {1},
      scheduler : {TRUE},
      step_scheduler_on_batch_or_epoch : {"batch", "epoch", "step"},
      clip_grad_norm : BOOLEAN,
      log_every_n_steps : {1},
      mode : {"min", "max", "median"},
      fault : {None} ]

RegistryConfig ==
    [ max_epochs |-> 0, scheduler |-> FALSE, step_scheduler_on_batch_or_epoch |-> "batch",
      clip_grad_norm |-> FALSE, log_every_n_steps |-> 1, mode |-> "min", fault |-> None ]

(***************************************************************************)
(* Exact quotients.                                                        *)
(***************************************************************************)
RECURSIVE GCD(_, _)
GCD(a, b) == IF b = 0 THEN a ELSE GCD(b, a % b)

\* n / d for d > 0, in lowest terms
Divide(n, d) == LET g == GCD(n, d) IN <<n \div g, d \div g>>

(***************************************************************************)
(* The Trainer's mutable fields as one record, threaded through the code   *)
(* of a step; err is the exception raised so far in the step.              *)
(***************************************************************************)
Self ==
    [ callbacks |-> callbacks, epoch_index |-> epoch_index, batch_index |-> batch_index,
      metrics_dict |-> metrics_dict, steps |-> steps, training |-> training,
      log |-> log, err |-> "none" ]

Entry(op, ev, arg, kw) == [op |-> op, ev |-> ev, arg |-> arg, kw |-> kw]

Did(self, op) == [self EXCEPT !.log = Append(@, Entry(op, "-", "-", {}))]

\* a call of a collaborator inside a step: nothing runs after an exception; the
\* call cfg.fault names raises, and is logged as raised
CallsOf(self, op) == Cardinality({ k \in 1..Len(self.log) : self.log[k].op = op })

Collaborator(self, op) ==
    CHOOSE r \in
        { IF s.err # "none" THEN s
          ELSE IF cfg.fault = Some(<<op, CallsOf(s, op) + 1>>)
               THEN [s EXCEPT !.log = Append(@, Entry(op, "-", "raised", {})),
                              !.err = "CollaboratorError"]
               ELSE Did(s, op) : s \in {self} } : TRUE

\* what a handler reads off the Trainer it is handed
Seen(self) ==
    [ epoch_index |-> self.epoch_index, batch_index |-> self.batch_index,
      metrics_dict |-> self.metrics_dict ]

Observed(self, op, ev, arg, kw) ==
    [op |-> op, ev |-> ev, arg |-> arg, kw |-> kw, seen |-> Seen(self)]

\* self.trigger_callbacks(event, **kwargs) inside a step: the dispatch and each
\* handler call are logged, with the counters the handlers see; a raising
\* handler ends the step
Dispatch(self, event, kwargs) ==
    CHOOSE after \in
        { LET r == trigger_callbacks(s.callbacks, event, kwargs)
              called == [k \in 1..Len(r.invoked) |->
                            Observed(s, "callback", event, r.invoked[k].h, r.invoked[k].kw)]
          IN IF s.err # "none" THEN s
             ELSE [s EXCEPT
                      !.callbacks = r.cbs,
                      !.log = (@ \o <<Observed(s, "trigger_callbacks", event, "-", kwargs)>>)
                                  \o called,
                      !.err = r.err] : s \in {self} } : TRUE

update_metrics(d, metric_name, metric_value) ==
    [k \in (DOMAIN d) \cup {metric_name} |-> IF k = metric_name THEN metric_value ELSE d[k]]

\* lines 186-187 and 293-294: loss.item() is the batch's mean loss
this_batch_total_loss_unweighted(batch) == batch.loss

this_batch_total_loss(batch) == batch.loss * batch.size

\* total_loss / total_samples of lines 273 and 334
epoch_average_guarded(total_loss, total_samples) ==
    IF total_samples = 0
    THEN [err |-> "none", value |-> <<0, 1>>]
    ELSE [err |-> "none", value |-> Divide(total_loss, total_samples)]

epoch_average(total_loss, total_samples) ==
    IF total_samples = 0
    THEN [err |-> "ZeroDivisionError", value |-> <<0, 1>>]
    ELSE [err |-> "none", value |-> Divide(total_loss, total_samples)]

\* a statement of a step that assigns a field: skipped after an exception
Assign(self, next) == IF self.err # "none" THEN self ELSE next

\* self.scheduler.step(); steps counts the calls that returned
StepScheduler(self) ==
    CHOOSE r \in { Assign(s, [s EXCEPT !.steps.scheduler = @ + 1]) :
                      s \in {Collaborator(self, "scheduler.step")} } : TRUE

\* self.optimizer.step()
StepOptimizer(self) ==
    CHOOSE r \in { Assign(s, [s EXCEPT !.steps.optimizer = @ + 1]) :
                      s \in {Collaborator(self, "optimizer.step")} } : TRUE

\* lines 189-190
ClipGradNorm(self) ==
    IF cfg.clip_grad_norm THEN Collaborator(self, "clip_grad_norm_") ELSE self

\* lines 195-196 and 270-271
StepSchedulerOn(self, granularity) ==
    IF cfg.scheduler /\ cfg.step_scheduler_on_batch_or_epoch = granularity
    THEN StepScheduler(self) ELSE self

\* line 198
CountBatch(self) ==
    CHOOSE r \in { Assign(s, [s EXCEPT !.batch_index = @ + 1]) : s \in {self} } : TRUE

\* lines 259-268
LogProgress(self, _batch_index) ==
    IF _batch_index % cfg.log_every_n_steps = 0
    THEN Collaborator(self, "logger.info") ELSE self

_train_one_batch_steps_first(self, batch) ==
    LET s1 == Dispatch(self, ON_TRAIN_BATCH_START, {})
        s2 == Collaborator(Collaborator(Collaborator(
                  s1, "move_to_device"), "model.forward"), "criterion")
        s3 == StepOptimizer(s2)
        s4 == Collaborator(Collaborator(s3, "model.zero_grad"), "loss.backward")
        s5 == ClipGradNorm(s4)
        s6 == StepSchedulerOn(s5, "batch")
        s7 == CountBatch(s6)
    IN Dispatch(s7, ON_TRAIN_BATCH_END, {})

_train_one_batch_counts_late(self, batch) ==
    LET s1 == Dispatch(self, ON_TRAIN_BATCH_START, {})
        s2 == Collaborator(Collaborator(Collaborator(Collaborator(Collaborator(
                  s1, "move_to_device"), "model.forward"), "criterion"),
                  "model.zero_grad"), "loss.backward")
        s3 == ClipGradNorm(s2)
        s4 == StepOptimizer(s3)
        s5 == StepSchedulerOn(s4, "batch")
        s6 == Dispatch(s5, ON_TRAIN_BATCH_END, {})
    IN CountBatch(s6)

_train_one_batch(self, batch) ==
    LET s1 == Dispatch(self, ON_TRAIN_BATCH_START, {})
        s2 == Collaborator(Collaborator(Collaborator(Collaborator(Collaborator(
                  s1, "move_to_device"), "model.forward"), "criterion"),
                  "model.zero_grad"), "loss.backward")
        s3 == ClipGradNorm(s2)
        s4 == StepOptimizer(s3)
        s5 == StepSchedulerOn(s4, "batch")
        s6 == CountBatch(s5)
    IN Dispatch(s6, ON_TRAIN_BATCH_END, {})

\* one iteration of the for loop of train_one_epoch (lines 251-271)
train_loop_body(self, f, batch) ==
    LET f1 == [f EXCEPT !.i = @ + 1, !.total_samples = @ + batch.size]
        f2 == [f1 EXCEPT !.this_epoch_total_running_loss = @ + this_batch_total_loss(batch)]
    IN CHOOSE r \in
           { IF s1.err # "none"
             THEN [self |-> s1, frame |-> f1]
             ELSE [self |-> StepSchedulerOn(LogProgress(s1, f2.i), "epoch"), frame |-> f2] :
                 s1 \in {_train_one_batch(self, batch)} } : TRUE

_valid_one_batch_trains(self, batch) ==
    LET s1 == Dispatch(self, ON_VALID_BATCH_START, {})
        s2 == Collaborator(Collaborator(Collaborator(
                  s1, "move_to_device"), "model.forward"), "criterion")
        s3 == StepOptimizer(Collaborator(Collaborator(s2, "model.zero_grad"), "loss.backward"))
    IN Dispatch(s3, ON_VALID_BATCH_END, {})

_valid_one_batch(self, batch) ==
    LET s1 == Dispatch(self, ON_VALID_BATCH_START, {})
        s2 == Collaborator(Collaborator(Collaborator(
                  s1, "move_to_device"), "model.forward"), "criterion")
    IN Dispatch(s2, ON_VALID_BATCH_END, {})

\* one iteration of the for loop of valid_one_epoch (lines 327-331)
valid_loop_body(self, f, batch) ==
    LET f1 == [f EXCEPT !.i = @ + 1, !.total_samples = @ + batch.size]
        f2 == [f1 EXCEPT !.this_epoch_total_running_loss = @ + this_batch_total_loss(batch)]
    IN CHOOSE r \in
           { [self |-> s1, frame |-> IF s1.err # "none" THEN f1 ELSE f2] :
                 s1 \in {_valid_one_batch(self, batch)} } : TRUE

epoch_finish_dispatch_first(self, f, metric_name, event, phase) ==
    LET q == epoch_average(f.this_epoch_total_running_loss, f.total_samples)
    IN IF q.err # "none"
       THEN [self |-> [self EXCEPT !.err = q.err], value |-> None]
       ELSE CHOOSE r \in
                { [ self |-> Assign(s1, Did([s1 EXCEPT !.metrics_dict =
                                                update_metrics(@, metric_name, q.value)],
                                            "update_metrics")),
                    value |-> IF s1.err = "none" THEN Some(q.value) ELSE None ] :
                      s1 \in {Dispatch(self, event, {"phase"})} } : TRUE

\* lines 273-276 and 333-337: the average, its metric, the epoch-end dispatch
epoch_finish(self, f, metric_name, event, phase) ==
    LET q == epoch_average(f.this_epoch_total_running_loss, f.total_samples)
        s1 == Did([self EXCEPT !.metrics_dict = update_metrics(@, metric_name, q.value)],
                  "update_metrics")
    IN IF q.err # "none"
       THEN [self |-> [self EXCEPT !.err = q.err], value |-> None]
       ELSE CHOOSE r \in
                { [self |-> s2, value |-> IF s2.err = "none" THEN Some(q.value) ELSE None] :
                      s2 \in {Dispatch(s1, event, {"phase"})} } : TRUE

(***************************************************************************)
(* The state after Trainer.__init__ (lines 102-148).                       *)
(***************************************************************************)
InitTrainer ==
    /\ callbacks = InitCallbacks
    /\ calls = << >>
    /\ pc = "idle"
    /\ err = "none"
    /\ returned = None
    /\ epoch_index = 0
    /\ batch_index = 0
    /\ metrics_dict = << >>
    /\ loaders = [train_dataloader |-> None, valid_dataloader |-> None, test_dataloader |-> None]
    /\ losses = [train_loss |-> None, valid_loss |-> None, test_loss |-> None]
    /\ frame = [dataloader |-> << >>, i |-> 0, total_samples |-> 0,
                this_epoch_total_running_loss |-> 0, ret |-> "none"]
    /\ it = 0
    /\ steps = [optimizer |-> 0, scheduler |-> 0]
    /\ training = TRUE
    /\ log = << >>

Init == InitTrainer /\ cfg \in Configs

InitEpoch == InitTrainer /\ cfg \in EpochConfigs

InitRegistry == InitTrainer /\ cfg = RegistryConfig

InitHooks == InitTrainer /\ cfg \in HookConfigs

\* before Trainer.__init__ runs: cfg is the composer and the state handed to it
InitNew ==
    /\ callbacks = [e \in TrainerEvent |-> << >>]
    /\ calls = << >>
    /\ pc = "new"
    /\ err = "none"
    /\ returned = None
    /\ cfg \in AnyConfigs
    /\ epoch_index = 0
    /\ batch_index = 0
    /\ metrics_dict = << >>
    /\ loaders = [train_dataloader |-> None, valid_dataloader |-> None, test_dataloader |-> None]
    /\ losses = [train_loss |-> None, valid_loss |-> None, test_loss |-> None]
    /\ frame = [dataloader |-> << >>, i |-> 0, total_samples |-> 0,
                this_epoch_total_running_loss |-> 0, ret |-> "none"]
    /\ it = 0
    /\ steps = [optimizer |-> 0, scheduler |-> 0]
    /\ training = TRUE
    /\ log = << >>

\* Trainer.__init__ (lines 102-148): the settings are copied as they are, the
\* counters and the metrics are set, the default handlers are registered
TrainerInit ==
    /\ pc = "new"
    /\ cfg' = cfg
    /\ metrics_dict' = << >>
    /\ epoch_index' = 0
    /\ batch_index' = 0
    /\ callbacks' = InitCallbacks
    /\ pc' = "idle"
    /\ UNCHANGED <<calls, err, returned, loaders, losses, frame, it, steps, training, log>>

CommitResume(self, next) ==
    /\ callbacks' = self.callbacks
    /\ epoch_index' = self.epoch_index
    /\ batch_index' = self.batch_index
    /\ metrics_dict' = self.metrics_dict
    /\ steps' = self.steps
    /\ training' = self.training
    /\ log' = self.log
    /\ err' = self.err
    /\ pc' = next

\* the step's effect on the Trainer's fields; an exception ends the call
Commit(self, next) ==
    \E s \in {self} :
        /\ callbacks' = s.callbacks
        /\ epoch_index' = s.epoch_index
        /\ batch_index' = s.batch_index
        /\ metrics_dict' = s.metrics_dict
        /\ steps' = s.steps
        /\ training' = s.training
        /\ log' = s.log
        /\ err' = s.err
        /\ pc' = IF s.err = "none" THEN next ELSE "raised"

(***************************************************************************)
(* fit (lines 348-373).                                                    *)
(***************************************************************************)
\* lines 355-360
FitCall(train_loader, valid_loader, test_loader) ==
    /\ pc = "idle"
    /\ loaders' = [train_dataloader |-> Some(train_loader),
                   valid_dataloader |-> valid_loader,
                   test_dataloader |-> test_loader]
    /\ it' = 0
    /\ Commit(Dispatch(Did(Self, "fit"), ON_FIT_START, {}), "fit_loop")
    /\ UNCHANGED <<calls, returned, cfg, losses, frame>>

FitLoopOneMore ==
    /\ pc = "fit_loop"
    /\ it <= cfg.max_epochs
    /\ it' = it + 1
    /\ frame' = [frame EXCEPT !.dataloader = loaders.train_dataloader[1], !.ret = "fit_valid"]
    /\ Commit([Self EXCEPT !.epoch_index = @ + 1,
                           !.log = Append(@, Entry("train_one_epoch", "-", "train_loader", {}))],
              "train_one_epoch")
    /\ UNCHANGED <<calls, returned, cfg, loaders, losses>>

FitLoopKeepsEpoch ==
    /\ pc = "fit_loop"
    /\ it < cfg.max_epochs
    /\ it' = it + 1
    /\ frame' = [frame EXCEPT !.dataloader = loaders.train_dataloader[1], !.ret = "fit_valid"]
    /\ Commit([Self EXCEPT !.log = Append(@, Entry("train_one_epoch", "-", "train_loader", {}))],
              "train_one_epoch")
    /\ UNCHANGED <<calls, returned, cfg, loaders, losses>>

\* lines 362-364: the next iteration of range(1, max_epochs + 1) calls train_one_epoch
FitLoop ==
    /\ pc = "fit_loop"
    /\ it < cfg.max_epochs
    /\ it' = it + 1
    /\ frame' = [frame EXCEPT !.dataloader = loaders.train_dataloader[1], !.ret = "fit_valid"]
    /\ Commit([Self EXCEPT !.epoch_index = @ + 1,
                           !.log = Append(@, Entry("train_one_epoch", "-", "train_loader", {}))],
              "train_one_epoch")
    /\ UNCHANGED <<calls, returned, cfg, loaders, losses>>

\* lines 366-367
FitValid ==
    /\ pc = "fit_valid"
    /\ IF Truthy(loaders.valid_dataloader)
       THEN /\ frame' = [frame EXCEPT !.dataloader = loaders.valid_dataloader[1],
                                      !.ret = "fit_test"]
            /\ Commit([Self EXCEPT !.log =
                          Append(@, Entry("valid_one_epoch", "-", "valid_loader", {}))],
                      "valid_one_epoch")
       ELSE /\ frame' = frame
            /\ Commit(Self, "fit_test")
    /\ UNCHANGED <<calls, returned, cfg, loaders, losses, it>>

\* lines 369-370
FitTest ==
    /\ pc = "fit_test"
    /\ IF Truthy(loaders.test_dataloader)
       THEN /\ frame' = [frame EXCEPT !.dataloader = loaders.test_dataloader[1],
                                      !.ret = "fit_loop"]
            /\ Commit([Self EXCEPT !.log =
                          Append(@, Entry("valid_one_epoch", "-", "test_loader", {}))],
                      "valid_one_epoch")
       ELSE /\ frame' = frame
            /\ Commit(Self, "fit_loop")
    /\ UNCHANGED <<calls, returned, cfg, loaders, losses, it>>

\* lines 372-373: the range is exhausted
FitEndOffByOne ==
    /\ pc = "fit_loop"
    /\ it > cfg.max_epochs
    /\ \E s \in {Dispatch(Self, ON_FIT_END, {})} :
          /\ Commit(s, "done")
          /\ returned' = IF s.err = "none" THEN Some("state") ELSE returned
    /\ UNCHANGED <<calls, cfg, loaders, losses, frame, it>>

FitEnd ==
    /\ pc = "fit_loop"
    /\ it >= cfg.max_epochs
    /\ \E s \in {Dispatch(Self, ON_FIT_END, {})} :
          /\ Commit(s, "done")
          /\ returned' = IF s.err = "none" THEN Some("state") ELSE returned
    /\ UNCHANGED <<calls, cfg, loaders, losses, frame, it>>

(***************************************************************************)
(* train_one_epoch (lines 202-276) and valid_one_epoch (lines 299-337),    *)
(* called by fit or directly.                                              *)
(***************************************************************************)
TrainOneEpochCall(dataloader) ==
    /\ pc = "idle"
    /\ frame' = [frame EXCEPT !.dataloader = dataloader, !.ret = "done"]
    /\ Commit([Self EXCEPT !.log = Append(@, Entry("train_one_epoch", "-", "dataloader", {}))],
              "train_one_epoch")
    /\ UNCHANGED <<calls, returned, cfg, loaders, losses, it>>

ValidOneEpochCall(dataloader) ==
    /\ pc = "idle"
    /\ frame' = [frame EXCEPT !.dataloader = dataloader, !.ret = "done"]
    /\ Commit([Self EXCEPT !.log = Append(@, Entry("valid_one_epoch", "-", "dataloader", {}))],
              "valid_one_epoch")
    /\ UNCHANGED <<calls, returned, cfg, loaders, losses, it>>

TrainEpochStartResetsBatch ==
    /\ pc = "train_one_epoch"
    /\ \E s1 \in {Dispatch(Self, ON_TRAIN_EPOCH_START, {"phase"})} :
          IF s1.err # "none"
          THEN Commit(s1, "raised") /\ frame' = frame
          ELSE /\ Commit(Did([s1 EXCEPT !.training = TRUE, !.batch_index = 0], "model.train"),
                         "train_loop")
               /\ frame' = [frame EXCEPT !.i = 0, !.total_samples = 0,
                                         !.this_epoch_total_running_loss = 0]
    /\ UNCHANGED <<calls, returned, cfg, loaders, losses, it>>

TrainEpochStartModeFirst ==
    /\ pc = "train_one_epoch"
    /\ \E s2 \in {Dispatch(Did([Self EXCEPT !.training = TRUE], "model.train"),
                             ON_TRAIN_EPOCH_START, {"phase"})} :
          IF s2.err # "none"
          THEN Commit(s2, "raised") /\ frame' = frame
          ELSE /\ Commit(s2, "train_loop")
               /\ frame' = [frame EXCEPT !.i = 0, !.total_samples = 0,
                                         !.this_epoch_total_running_loss = 0]
    /\ UNCHANGED <<calls, returned, cfg, loaders, losses, it>>

\* lines 241-249
TrainEpochStart ==
    /\ pc = "train_one_epoch"
    /\ \E s1 \in {Dispatch(Self, ON_TRAIN_EPOCH_START, {"phase"})} :
          IF s1.err # "none"
          THEN Commit(s1, "raised") /\ frame' = frame
          ELSE /\ Commit(Did([s1 EXCEPT !.training = TRUE], "model.train"), "train_loop")
               /\ frame' = [frame EXCEPT !.i = 0, !.total_samples = 0,
                                         !.this_epoch_total_running_loss = 0]
    /\ UNCHANGED <<calls, returned, cfg, loaders, losses, it>>

\* lines 251-271, one batch
TrainBatch ==
    /\ pc = "train_loop"
    /\ frame.i < Len(frame.dataloader)
    /\ \E r \in {train_loop_body(Self, frame, frame.dataloader[frame.i + 1])} :
          Commit(r.self, "train_loop") /\ frame' = r.frame
    /\ UNCHANGED <<calls, returned, cfg, loaders, losses, it>>

\* the value an epoch function returns goes to the caller: fit stores it
\* (lines 364, 367, 370), a direct call returns it
Return(value, ok) ==
    /\ losses' = IF ~ok THEN losses
                 ELSE CASE frame.ret = "fit_valid" -> [losses EXCEPT !.train_loss = value]
                        [] frame.ret = "fit_test" -> [losses EXCEPT !.valid_loss = value]
                        [] frame.ret = "fit_loop" -> [losses EXCEPT !.test_loss = value]
                        [] OTHER -> losses
    /\ returned' = IF ok /\ frame.ret = "done" THEN value ELSE returned

\* lines 273-276, the producer is exhausted
TrainEpochEnd ==
    /\ pc = "train_loop"
    /\ frame.i >= Len(frame.dataloader)
    /\ \E r \in {epoch_finish(Self, frame, "train_this_epoch_average_loss",
                                ON_TRAIN_EPOCH_END, "train")} :
          Commit(r.self, frame.ret) /\ Return(r.value, r.self.err = "none")
    /\ UNCHANGED <<calls, cfg, loaders, frame, it>>

\* lines 319-325
ValidEpochStart ==
    /\ pc = "valid_one_epoch"
    /\ \E s1 \in {Dispatch(Self, ON_VALID_EPOCH_START, {"phase"})} :
          IF s1.err # "none"
          THEN Commit(s1, "raised") /\ frame' = frame
          ELSE /\ Commit(Did([s1 EXCEPT !.training = FALSE], "model.eval"), "valid_loop")
               /\ frame' = [frame EXCEPT !.i = 0, !.total_samples = 0,
                                         !.this_epoch_total_running_loss = 0]
    /\ UNCHANGED <<calls, returned, cfg, loaders, losses, it>>

\* lines 327-331, one batch
ValidBatch ==
    /\ pc = "valid_loop"
    /\ frame.i < Len(frame.dataloader)
    /\ \E r \in {valid_loop_body(Self, frame, frame.dataloader[frame.i + 1])} :
          Commit(r.self, "valid_loop") /\ frame' = r.frame
    /\ UNCHANGED <<calls, returned, cfg, loaders, losses, it>>

\* lines 333-337, the producer is exhausted
ValidEpochEnd ==
    /\ pc = "valid_loop"
    /\ frame.i >= Len(frame.dataloader)
    /\ \E r \in {epoch_finish(Self, frame, "valid_this_epoch_average_loss",
                                ON_VALID_EPOCH_END, "valid")} :
          Commit(r.self, frame.ret) /\ Return(r.value, r.self.err = "none")
    /\ UNCHANGED <<calls, cfg, loaders, frame, it>>

EpochSteps ==
    \/ TrainEpochStart
    \/ TrainBatch
    \/ TrainEpochEnd
    \/ ValidEpochStart
    \/ ValidBatch
    \/ ValidEpochEnd

FitSteps ==
    \/ FitLoop
    \/ FitValid
    \/ FitTest
    \/ FitEnd

(***************************************************************************)
(* The public registry calls, made while no fit is running.                *)
(***************************************************************************)
ApiEvents == { ON_FIT_START, ON_TRAIN_BATCH_END }
ApiKwargs == { {}, {"phase"}, {"phase", "epoch"} }

\* the record of one registry call: its arguments, the event's handler list before
\* and after it, the handler calls it made and the exception it raised
Call(op, event, callback, kwargs, after, invoked, error) ==
    [ op |-> op, event |-> event, callback |-> callback, kwargs |-> kwargs,
      before |-> callbacks[event], after |-> after[event], invoked |-> invoked,
      err |-> error ]

FrameUnchanged ==
    UNCHANGED <<pc, err, returned, cfg, epoch_index, batch_index, metrics_dict,
                loaders, losses, frame, it, steps, training, log>>

AddCallback(event, callback) ==
    /\ pc = "idle"
    /\ Len(calls) < MaxOps
    /\ callbacks' = add_callback(callbacks, event, callback)
    /\ calls' = Append(calls, Call("add_callback", event, callback, {}, callbacks', << >>, "none"))
    /\ FrameUnchanged

SetCallback(event, callback) ==
    /\ pc = "idle"
    /\ Len(calls) < MaxOps
    /\ callbacks' = set_callback(callbacks, event, callback)
    /\ calls' = Append(calls, Call("set_callback", event, callback, {}, callbacks', << >>, "none"))
    /\ FrameUnchanged

RemoveCallback(event, callback) ==
    /\ pc = "idle"
    /\ Len(calls) < MaxOps
    /\ LET r == remove_callback(callbacks, event, callback)
       IN /\ callbacks' = r.cbs
          /\ calls' = Append(calls, Call("remove_callback", event, callback, {}, r.cbs, << >>, r.err))
    /\ FrameUnchanged

TriggerCallbacks(event, kwargs) ==
    /\ pc = "idle"
    /\ Len(calls) < MaxOps
    /\ LET r == trigger_callbacks(callbacks, event, kwargs)
       IN /\ callbacks' = r.cbs
          /\ calls' = Append(calls,
                          Call("trigger_callbacks", event, "-", kwargs, r.cbs, r.invoked, r.err))
    /\ FrameUnchanged

(***************************************************************************)
(* Specifications.  Spec: a fit run of a fresh Trainer under every         *)
(* configuration.  SpecEpoch: the epoch functions, called directly or by   *)
(* fit, over loaders of every batch size and loss.  SpecRegistry: the      *)
(* registry calls in every order.  SpecHooks: a fit with a caller's        *)
(* handler and a collaborator that may raise.  SpecDefaults: the default   *)
(* handlers.  SpecLive: dispatches whose handlers edit the registry.       *)
(* SpecFair: a fit run that is carried on to its end.  SpecConstruct:      *)
(* construction from any configuration.                                    *)
(***************************************************************************)
Fit ==
    /\ pc = "idle"
    /\ \E tl \in TrainLoaders, vl \in EvalLoaders, tsl \in EvalLoaders : FitCall(tl, vl, tsl)

Next ==
    \/ Fit
    \/ FitSteps
    \/ EpochSteps

Spec == Init /\ [][Next]_vars

TrainOneEpoch ==
    /\ pc = "idle"
    /\ \E dl \in RichLoaders : TrainOneEpochCall(dl)

ValidOneEpoch ==
    /\ pc = "idle"
    /\ \E dl \in RichLoaders : ValidOneEpochCall(dl)

FitRich ==
    /\ pc = "idle"
    /\ \E tl \in RichLoaders : \E vl \in {None, Some(tl)} : FitCall(tl, vl, None)

NextEpoch ==
    \/ TrainOneEpoch
    \/ ValidOneEpoch
    \/ FitRich
    \/ FitSteps
    \/ EpochSteps

SpecEpoch == InitEpoch /\ [][NextEpoch]_vars

NextRegistry ==
    \/ \E e \in ApiEvents, h \in UserHandlers : AddCallback(e, h)
    \/ \E e \in ApiEvents, h \in UserHandlers : SetCallback(e, h)
    \/ \E e \in ApiEvents, h \in UserHandlers : RemoveCallback(e, h)
    \/ \E e \in ApiEvents, kw \in ApiKwargs : TriggerCallbacks(e, kw)

SpecRegistry == InitRegistry /\ [][NextRegistry]_vars

\* a fit run of a Trainer on which the caller has registered one handler, with
\* collaborators of which one call may raise
Register ==
    /\ calls = << >>
    /\ \E e \in TrainerEvent, h \in HookHandlers : AddCallback(e, h)

FitHooks ==
    /\ pc = "idle"
    /\ \E tl \in HookTrainLoaders, vl \in HookEvalLoaders, tsl \in HookEvalLoaders :
           FitCall(tl, vl, tsl)

NextHooks ==
    \/ Register
    \/ FitHooks
    \/ FitSteps
    \/ EpochSteps

SpecHooks == InitHooks /\ [][NextHooks]_vars

\* the registry of a fresh Trainer: removals of the default handlers and
\* dispatches of every event
RemoveDefault ==
    /\ Len(calls) < MaxDefaultOps
    /\ \E e \in TrainerEvent, h \in DefaultHandlers : RemoveCallback(e, h)

TriggerAny ==
    /\ Len(calls) < MaxDefaultOps
    /\ \E e \in TrainerEvent, kw \in {{}, {"phase"}} : TriggerCallbacks(e, kw)

NextDefaults ==
    \/ RemoveDefault
    \/ TriggerAny

SpecDefaults == InitRegistry /\ [][NextDefaults]_vars

\* registrations of handlers of which one unregisters itself when called, and
\* dispatches
EditingHandlers == { "h_once", "h1", "h2" }

RegisterEditing == \E e \in ApiEvents, h \in EditingHandlers : AddCallback(e, h)

DispatchLive == \E e \in ApiEvents, kw \in ApiKwargs : TriggerCallbacks(e, kw)

NextLive ==
    \/ RegisterEditing
    \/ DispatchLive

SpecLive == InitRegistry /\ [][NextLive]_vars

\* a fit run that is carried on: fit runs on the caller's thread, statement
\* after statement, and nothing but its own return or an exception stops it, so
\* a step of the run that can be taken is taken
FairConfigs ==
    [ max_epochs : 0..MaxEpochs,
      scheduler : {TRUE},
      step_scheduler_on_batch_or_epoch : {"batch", "epoch"},
      clip_grad_norm : {TRUE},
      log_every_n_steps : {2},
      mode : {"min"},
      fault : {None} ]

InitFair == InitTrainer /\ cfg \in FairConfigs

SpecFair == InitFair /\ [][Next]_vars /\ WF_vars(FitSteps \/ EpochSteps)

\* the construction of a Trainer from any configuration, and its fit
NextConstruct ==
    \/ TrainerInit
    \/ Fit
    \/ FitSteps
    \/ EpochSteps

SpecConstruct == InitNew /\ [][NextConstruct]_vars

(***************************************************************************)
(* Vocabulary of the properties.                                           *)
(***************************************************************************)
IsPrefix(s, t) == Len(s) <= Len(t) /\ \A i \in 1..Len(s) : s[i] = t[i]

Range(s) == { s[i] : i \in 1..Len(s) }

Occurrences(s, x) == Cardinality({ i \in 1..Len(s) : s[i] = x })

\* s with the first occurrence of x taken out (x occurs in s)
WithoutFirst(s, x) ==
    LET i == CHOOSE k \in 1..Len(s) : s[k] = x /\ \A j \in 1..(k-1) : s[j] # x
    IN [j \in 1..(Len(s) - 1) |-> IF j < i THEN s[j] ELSE s[j+1]]

\* the handlers a registry call invoked, in order
HandlersOf(c) == [k \in 1..Len(c.invoked) |-> c.invoked[k].h]

IsTrigger(k) == calls[k].op = "trigger_callbacks"

\* no call strictly between the k-th and the m-th changes the handlers of event
Untouched(k, m, event) ==
    \A j \in (k+1)..(m-1) : calls[j].event # event \/ IsTrigger(j)

\* what the first n registry calls leave registered on event, by the documented
\* meaning of register / replace / unregister
RECURSIVE Registered(_, _)
Registered(event, n) ==
    IF n = 0 THEN InitCallbacks[event]
    ELSE LET c == calls[n]
             prev == Registered(event, n - 1)
         IN IF c.event # event THEN prev
            ELSE CASE c.op = "add_callback" -> Append(prev, c.callback)
                   [] c.op = "set_callback" -> <<c.callback>>
                   [] c.op = "remove_callback" ->
                        IF c.callback \in Range(prev) THEN WithoutFirst(prev, c.callback)
                        ELSE prev
                   [] OTHER -> prev

(***************************************************************************)
(* C3: after remove_callback(e, h) succeeds, the handlers of e are the     *)
(* former ones less the first occurrence of h, in their former order; a    *)
(* later dispatch of e invokes them in that order (all of them when no     *)
(* handler raises, fail-fast being C10's matter) and, when h was           *)
(* registered once, never h.                                               *)
(***************************************************************************)
C3_RemovedHandlerNotDispatched ==
    \A k \in 1..Len(calls) :
        (calls[k].op = "remove_callback" /\ calls[k].err = "none") =>
            LET c == calls[k]
                rest == WithoutFirst(c.before, c.callback)
            IN /\ c.after = rest
               /\ \A m \in (k+1)..Len(calls) :
                     (IsTrigger(m) /\ calls[m].event = c.event /\ Untouched(k, m, c.event)) =>
                         /\ IsPrefix(HandlersOf(calls[m]), rest)
                         /\ calls[m].err = "none" => HandlersOf(calls[m]) = rest
                         /\ Occurrences(c.before, c.callback) = 1 =>
                                c.callback \notin Range(HandlersOf(calls[m]))

\* a handler registered once is removed and the event is then dispatched to the others
C3_Witness ==
    \E k \in 1..Len(calls) : \E m \in (k+1)..Len(calls) :
        /\ calls[k].op = "remove_callback" /\ calls[k].err = "none"
        /\ Occurrences(calls[k].before, calls[k].callback) = 1
        /\ IsTrigger(m) /\ calls[m].event = calls[k].event /\ Untouched(k, m, calls[k].event)
        /\ calls[m].err = "none"
        /\ Len(calls[m].invoked) >= 2

(***************************************************************************)
(* C4: remove_callback(e, h) with h not registered on e raises (Python's   *)
(* ValueError is the not-found error) and leaves the handlers of e as they *)
(* were: a dispatch of e after the failed call invokes what a dispatch of  *)
(* e before it invoked.                                                    *)
(***************************************************************************)
C4_RemoveAbsentFailsAndKeepsRegistry ==
    \A k \in 1..Len(calls) :
        (calls[k].op = "remove_callback" /\ calls[k].callback \notin Range(calls[k].before)) =>
            LET c == calls[k]
            IN /\ c.err = "ValueError"
               /\ c.after = c.before
               /\ \A m \in (k+1)..Len(calls) :
                     (IsTrigger(m) /\ calls[m].event = c.event /\ Untouched(k, m, c.event)) =>
                         /\ IsPrefix(HandlersOf(calls[m]), c.before)
                         /\ calls[m].err = "none" => HandlersOf(calls[m]) = c.before
                         /\ \A j \in 1..(k-1) :
                               ( IsTrigger(j) /\ calls[j].event = c.event
                                 /\ Untouched(j, k, c.event) ) =>
                                   HandlersOf(calls[j]) = HandlersOf(calls[m])

\* a dispatch, a failed removal, a dispatch: of an event that has handlers
C4_Witness ==
    \E j \in 1..Len(calls) : \E k \in (j+1)..Len(calls) : \E m \in (k+1)..Len(calls) :
        /\ IsTrigger(j) /\ IsTrigger(m)
        /\ calls[k].op = "remove_callback" /\ calls[k].err = "ValueError"
        /\ calls[j].event = calls[k].event /\ calls[m].event = calls[k].event
        /\ Len(calls[m].invoked) >= 2

(***************************************************************************)
(* C5: set_callback(e, h1) leaves exactly h1 registered on e, whatever was *)
(* registered before (the default handlers included); after a following    *)
(* add_callback(e, h2) a dispatch of e invokes h1 then h2 and nothing else *)
(* (when h1 raises, the dispatch ends at h1: C10).                         *)
(***************************************************************************)
C5_SetReplacesThenAddAppends ==
    \A k \in 1..Len(calls) :
        calls[k].op = "set_callback" =>
            /\ calls[k].after = <<calls[k].callback>>
            /\ \A m \in (k+1)..Len(calls) : \A n \in (m+1)..Len(calls) :
                  ( /\ calls[m].op = "add_callback" /\ calls[m].event = calls[k].event
                    /\ IsTrigger(n) /\ calls[n].event = calls[k].event
                    /\ Untouched(k, m, calls[k].event) /\ Untouched(m, n, calls[k].event) ) =>
                      /\ IsPrefix(HandlersOf(calls[n]), <<calls[k].callback, calls[m].callback>>)
                      /\ Len(calls[n].invoked) >= 1
                      /\ calls[n].err = "none" =>
                            HandlersOf(calls[n]) = <<calls[k].callback, calls[m].callback>>

\* set_callback on on_fit_start discards the two default handlers; add; dispatch
C5_Witness ==
    /\ Len(calls) >= 3
    /\ calls[1].op = "set_callback" /\ calls[1].event = ON_FIT_START
    /\ Len(calls[1].before) = 2
    /\ calls[2].op = "add_callback" /\ calls[2].event = ON_FIT_START
    /\ calls[2].callback # calls[1].callback
    /\ IsTrigger(3) /\ calls[3].event = ON_FIT_START
    /\ HandlersOf(calls[3]) = <<calls[1].callback, calls[2].callback>>

(***************************************************************************)
(* C8: whatever add_callback, set_callback and remove_callback calls came  *)
(* before, a dispatch of e invokes the handlers those calls left           *)
(* registered on e: each as often as it is registered, in registration     *)
(* order, and none that is registered on another event only.  The handlers *)
(* here return or raise; when one raises, the dispatch has invoked the     *)
(* handlers up to it (C10).  The dispatch leaves the registry as it was.   *)
(***************************************************************************)
C8_DispatchInvokesRegistered ==
    \A m \in 1..Len(calls) :
        IsTrigger(m) =>
            LET reg == Registered(calls[m].event, m - 1)
            IN /\ IsPrefix(HandlersOf(calls[m]), reg)
               /\ calls[m].err = "none" => HandlersOf(calls[m]) = reg
               /\ calls[m].before = reg
               /\ calls[m].after = reg

\* a handler registered twice is invoked twice, after a default handler
C8_Witness ==
    \E m \in 1..Len(calls) :
        /\ IsTrigger(m) /\ calls[m].err = "none"
        /\ \E h \in UserHandlers : Occurrences(HandlersOf(calls[m]), h) = 2
        /\ calls[m].invoked[1].h \in DefaultHandlers

C10_DispatchFailFast ==
    \A m \in 1..Len(calls) :
        IsTrigger(m) =>
            LET list == calls[m].before
                raising == { i \in 1..Len(list) : Raises(list[i]) }
            IN IF raising = {}
               THEN calls[m].err = "none"
               ELSE LET i == CHOOSE k \in raising : \A r \in raising : k <= r
                    IN /\ calls[m].err = "HandlerError"
                       /\ HandlersOf(calls[m]) = SubSeq(list, 1, i)

\* the raising handler has handlers before it and one after it, which is not invoked
C10_Witness ==
    \E m \in 1..Len(calls) :
        /\ IsTrigger(m) /\ calls[m].err = "HandlerError"
        /\ Len(calls[m].invoked) >= 2
        /\ Len(calls[m].invoked) < Len(calls[m].before)

(***************************************************************************)
(* Vocabulary of the properties of a run.                                  *)
(***************************************************************************)
EpochCallOps == { "train_one_epoch", "valid_one_epoch" }

EpochEvents ==
    { ON_TRAIN_EPOCH_START, ON_TRAIN_EPOCH_END, ON_VALID_EPOCH_START, ON_VALID_EPOCH_END }

\* the calls of the epoch functions and the dispatches of the fit and epoch events
IsMilestone(e) ==
    \/ e.op \in EpochCallOps
    \/ e.op = "trigger_callbacks" /\ e.ev \in EpochEvents \cup {ON_FIT_START, ON_FIT_END}

Milestones(lg) ==
    LET sel == SelectSeq(lg, IsMilestone)
    IN [k \in 1..Len(sel) |-> IF sel[k].op = "trigger_callbacks" THEN sel[k].ev ELSE sel[k].arg]

\* one iteration of fit with the three producers: a training epoch, a validation
\* epoch over valid_loader, an evaluation epoch over test_loader
OneIteration ==
    << "train_loader", ON_TRAIN_EPOCH_START, ON_TRAIN_EPOCH_END,
       "valid_loader", ON_VALID_EPOCH_START, ON_VALID_EPOCH_END,
       "test_loader", ON_VALID_EPOCH_START, ON_VALID_EPOCH_END >>

RECURSIVE Repeat(_, _)
Repeat(s, n) == IF n = 0 THEN << >> ELSE s \o Repeat(s, n - 1)

ExpectedFit(E) == (<<ON_FIT_START>> \o Repeat(OneIteration, E)) \o <<ON_FIT_END>>

\* fit was called with three non-empty producers
FullFit ==
    /\ Truthy(loaders.train_dataloader)
    /\ Truthy(loaders.valid_dataloader)
    /\ Truthy(loaders.test_dataloader)

\* the position in the log of the latest call of an epoch function (0: none)
LastEpochCall ==
    LET ks == { k \in 1..Len(log) : log[k].op \in EpochCallOps }
    IN IF ks = {} THEN 0 ELSE CHOOSE k \in ks : \A j \in ks : j <= k

\* scheduler.step() calls made since the latest call of an epoch function
SchedulerStepsThisEpoch ==
    Cardinality({ j \in (LastEpochCall + 1)..Len(log) : log[j].op = "scheduler.step" })

(***************************************************************************)
(* C1: a fit with max_epochs = E over three non-empty producers raises     *)
(* nothing and, from its call to its return, starts and ends its epochs in *)
(* this order: on_fit_start once, then E times (training epoch,            *)
(* validation epoch, test epoch), then on_fit_end once.  At every moment   *)
(* of the run the epochs so far are a prefix of that sequence.             *)
(***************************************************************************)
C1_FitRunsEpochsInOrder ==
    FullFit =>
        /\ err = "none"
        /\ IsPrefix(Milestones(log), ExpectedFit(cfg.max_epochs))
        /\ pc = "done" => /\ Milestones(log) = ExpectedFit(cfg.max_epochs)
                          /\ it = cfg.max_epochs

\* a fit of two epochs over a training producer of two batches has returned
C1_Witness ==
    /\ FullFit
    /\ pc = "done"
    /\ cfg.max_epochs = 2
    /\ Len(loaders.train_dataloader[1]) = 2
    /\ returned = Some("state")

(***************************************************************************)
(* C2: when a training epoch of B >= 1 batches has run with a scheduler,   *)
(* scheduler.step() was called B times in it under "batch" and once under  *)
(* "epoch".                                                                *)
(***************************************************************************)
C2_SchedulerStepsPerGranularity ==
    (pc = "fit_valid" /\ cfg.scheduler /\ Len(frame.dataloader) >= 1) =>
        SchedulerStepsThisEpoch =
            IF cfg.step_scheduler_on_batch_or_epoch = "batch" THEN Len(frame.dataloader) ELSE 1

(***************************************************************************)
(* C6: once train_one_epoch or valid_one_epoch has gone through a producer *)
(* of zero batches, the call has ended with ZeroDivisionError: it returned *)
(* no value to its caller, update_metrics was not called for the epoch and *)
(* the epoch-end event was not dispatched.                                 *)
(***************************************************************************)
C6_EmptyEpochRaises ==
    ( /\ frame.ret # "none"
      /\ frame.dataloader = << >>
      /\ pc \notin {"train_one_epoch", "valid_one_epoch", "train_loop", "valid_loop"} ) =>
        /\ pc = "raised"
        /\ err = "ZeroDivisionError"
        /\ returned = None
        /\ losses = [train_loss |-> None, valid_loss |-> None, test_loss |-> None]
        /\ \A j \in (LastEpochCall + 1)..Len(log) :
              /\ log[j].op # "update_metrics"
              /\ log[j].ev \notin {ON_TRAIN_EPOCH_END, ON_VALID_EPOCH_END}

\* valid_one_epoch over an empty producer has failed
C6_Witness ==
    /\ pc = "raised"
    /\ err = "ZeroDivisionError"
    /\ LastEpochCall > 0
    /\ log[LastEpochCall].op = "valid_one_epoch"
    /\ log[Len(log)].op = "model.eval"

\* the size-weighted average loss of a producer's batches
RECURSIVE TotalLoss(_)
TotalLoss(dl) == IF dl = << >> THEN 0 ELSE dl[1].loss * dl[1].size + TotalLoss(Tail(dl))

RECURSIVE TotalSamples(_)
TotalSamples(dl) == IF dl = << >> THEN 0 ELSE dl[1].size + TotalSamples(Tail(dl))

WeightedAverage(dl) == Divide(TotalLoss(dl), TotalSamples(dl))

ExampleLoader == [k \in 1..3 |-> [size |-> 4, loss |-> k]]

\* the latest epoch function called has returned to its caller
EpochReturned ==
    /\ frame.ret # "none"
    /\ err = "none"
    /\ pc \in {"fit_valid", "fit_test", "fit_loop", "done"}

\* what the caller got from it
EpochReturnValue ==
    CASE frame.ret = "fit_valid" -> losses.train_loss
      [] frame.ret = "fit_test" -> losses.valid_loss
      [] frame.ret = "fit_loop" -> losses.test_loss
      [] OTHER -> returned

EpochMetricKey ==
    IF log[LastEpochCall].op = "train_one_epoch"
    THEN "train_this_epoch_average_loss"
    ELSE "valid_this_epoch_average_loss"

(***************************************************************************)
(* C7: when an epoch over a producer with samples has returned, the value  *)
(* it returned and the value under its metric key are                      *)
(* (sum of batch loss * batch size) / (sum of batch size) over the batches *)
(* of that epoch alone; three batches of size 4 and losses 1, 2, 3 give 2. *)
(***************************************************************************)
C7_EpochAverageIsWeighted ==
    EpochReturned =>
        /\ EpochReturnValue = Some(WeightedAverage(frame.dataloader))
        /\ EpochMetricKey \in DOMAIN metrics_dict
        /\ metrics_dict[EpochMetricKey] = WeightedAverage(frame.dataloader)
        /\ frame.dataloader = ExampleLoader => metrics_dict[EpochMetricKey] = <<2, 1>>

\* the second training epoch of a fit over batches of sizes 1 and 4: (3 + 4) / 5
C7_Witness ==
    /\ it = 2
    /\ pc = "fit_valid"
    /\ frame.dataloader = << [size |-> 1, loss |-> 3], [size |-> 4, loss |-> 1] >>
    /\ losses.train_loss = Some(<<7, 5>>)
    /\ metrics_dict["train_this_epoch_average_loss"] = <<7, 5>>

(***************************************************************************)
(* Vocabulary of the properties of a failing run.                          *)
(***************************************************************************)
\* the log entry of a call that raised: a collaborator's or a handler's
IsRaise(e) == e.arg = "raised" \/ (e.op = "callback" /\ Raises(e.arg))

Count(lg, Test(_)) == Cardinality({ k \in 1..Len(lg) : Test(lg[k]) })

IsDispatchOf(e, event) == e.op = "trigger_callbacks" /\ e.ev = event

Returned(e, op) == e.op = op /\ e.arg # "raised"

(***************************************************************************)
(* C11: in a fit run in which a collaborator call or a handler raises, the *)
(* raising call is the last thing the run did: no batch, epoch, dispatch   *)
(* or second attempt follows it, on_fit_end is not dispatched (unless the  *)
(* handler that raised is one of on_fit_end itself) and fit returns        *)
(* nothing.  The counters and the metrics stand as the work done   *)
(* before the failure left them: the epoch counter counts the training     *)
(* epochs begun, the batch counter the training batches completed, the     *)
(* step counters the optimizer and scheduler steps that returned, and a    *)
(* recorded average is still recorded.                                     *)
(***************************************************************************)
C11_FailureAbortsFit ==
    /\ \A k \in 1..Len(log) :
          IsRaise(log[k]) =>
              /\ k = Len(log)
              /\ pc = "raised"
              /\ err \in {"HandlerError", "CollaboratorError"}
    /\ pc = "raised" =>
          /\ returned = None
          /\ IsRaise(log[Len(log)])
          /\ Count(log, LAMBDA e : IsDispatchOf(e, ON_FIT_END)) =
                 IF log[Len(log)].ev = ON_FIT_END THEN 1 ELSE 0
    /\ epoch_index = Count(log, LAMBDA e : e.op = "train_one_epoch")
    /\ batch_index = Count(log, LAMBDA e : IsDispatchOf(e, ON_TRAIN_BATCH_END))
    /\ steps.optimizer = Count(log, LAMBDA e : Returned(e, "optimizer.step"))
    /\ steps.scheduler = Count(log, LAMBDA e : Returned(e, "scheduler.step"))
    /\ (metrics_dict # << >>) = (Count(log, LAMBDA e : e.op = "update_metrics") > 0)
    /\ \A key \in DOMAIN metrics_dict : metrics_dict[key] = <<HookBatch.loss, 1>>

\* the model raises in the validation epoch of the first of the iterations, after
\* a training epoch that stepped the optimizer and recorded its average
C11_Witness ==
    /\ pc = "raised"
    /\ err = "CollaboratorError"
    /\ log[Len(log)].op = "model.forward"
    /\ epoch_index = 1
    /\ epoch_index < cfg.max_epochs
    /\ batch_index >= 1
    /\ steps.optimizer >= 1
    /\ "train_this_epoch_average_loss" \in DOMAIN metrics_dict
    /\ training = FALSE

(***************************************************************************)
(* C12: when an iteration of fit with a validation and a test producer has *)
(* ended, each phase's average loss is recorded under its own key:         *)
(* "train_this_epoch_average_loss" holds the training epoch's average,     *)
(* "valid_this_epoch_average_loss" the validation pass's and               *)
(* "test_this_epoch_average_loss" the test pass's.                         *)
(***************************************************************************)
C12_MetricKeyPerPhase ==
    ( /\ pc = "fit_loop" /\ it >= 1 /\ err = "none"
      /\ Truthy(loaders.valid_dataloader)
      /\ Truthy(loaders.test_dataloader) ) =>
        /\ "train_this_epoch_average_loss" \in DOMAIN metrics_dict
        /\ metrics_dict["train_this_epoch_average_loss"] =
               WeightedAverage(loaders.train_dataloader[1])
        /\ "valid_this_epoch_average_loss" \in DOMAIN metrics_dict
        /\ metrics_dict["valid_this_epoch_average_loss"] =
               WeightedAverage(loaders.valid_dataloader[1])
        /\ "test_this_epoch_average_loss" \in DOMAIN metrics_dict
        /\ metrics_dict["test_this_epoch_average_loss"] =
               WeightedAverage(loaders.test_dataloader[1])

\* the documented values of the settings
ValidConfig(c) ==
    /\ c.step_scheduler_on_batch_or_epoch \in {"batch", "epoch"}
    /\ c.mode \in {"min", "max"}

(***************************************************************************)
(* C13: a configuration with a scheduler-stepping granularity other than   *)
(* "batch" or "epoch", or a comparison mode other than "min" or "max", is  *)
(* refused by the constructor with a configuration error: no constructed   *)
(* Trainer, and so no fit, holds one.                                      *)
(***************************************************************************)
C13_InvalidConfigRefused ==
    ~ValidConfig(cfg) => (pc = "new" \/ err = "ConfigurationError")

\* the default handlers as documented, per event, in order
DocumentedDefaults ==
    [ e \in TrainerEvent |->
        CASE e = ON_FIT_START -> << "log_on_fit_start", "log_on_fit_start_model_summary" >>
          [] e = ON_TRAIN_EPOCH_START -> << "log_on_train_epoch_start" >>
          [] e = ON_VALID_EPOCH_START -> << "log_on_train_epoch_start" >>
          [] e = ON_TRAIN_EPOCH_END -> << "update_state", "log_on_epoch_end" >>
          [] e = ON_VALID_EPOCH_END -> << "save_state", "log_on_epoch_end" >>
          [] OTHER -> << >> ]

(***************************************************************************)
(* C14: before any registry call the Trainer holds exactly the documented  *)
(* default handlers, in the documented order, and none on the batch events *)
(* and on_fit_end.  remove_callback of a default handler from its event    *)
(* succeeds and takes it, and nothing else, off the event: a later         *)
(* dispatch of the event invokes the other handlers, in order, not the     *)
(* removed one.                                                            *)
(***************************************************************************)
C14_DefaultsInstalledAndRemovable ==
    /\ calls = << >> => callbacks = DocumentedDefaults
    /\ \A k \in 1..Len(calls) :
          ( /\ calls[k].op = "remove_callback"
            /\ calls[k].callback \in Range(DocumentedDefaults[calls[k].event])
            /\ Untouched(0, k, calls[k].event) ) =>
              LET c == calls[k]
                  rest == WithoutFirst(DocumentedDefaults[c.event], c.callback)
              IN /\ c.err = "none"
                 /\ c.before = DocumentedDefaults[c.event]
                 /\ c.after = rest
                 /\ c.callback \notin Range(rest)
                 /\ \A m \in (k+1)..Len(calls) :
                       (IsTrigger(m) /\ calls[m].event = c.event /\ Untouched(k, m, c.event)) =>
                           /\ calls[m].err = "none"
                           /\ HandlersOf(calls[m]) = rest

\* update_state is removed from on_train_epoch_end, whose dispatch then invokes
\* log_on_epoch_end alone
C14_Witness ==
    \E k \in 1..Len(calls) : \E m \in (k+1)..Len(calls) :
        /\ calls[k].op = "remove_callback" /\ calls[k].err = "none"
        /\ calls[k].event = ON_TRAIN_EPOCH_END /\ calls[k].callback = "update_state"
        /\ IsTrigger(m) /\ calls[m].event = ON_TRAIN_EPOCH_END
        /\ HandlersOf(calls[m]) = << "log_on_epoch_end" >>

(***************************************************************************)
(* C15: the batch counter is 0 before the run, every step of the run       *)
(* raises it by the number of training batches the step ran (one at most)  *)
(* and no step lowers or resets it, at an epoch boundary or elsewhere; so  *)
(* it counts the training batches of the whole run, and after a fit of E   *)
(* epochs over B training batches that raised nothing it is E * B.         *)
(***************************************************************************)
C15_BatchCounterCumulative ==
    /\ [](/\ log = << >> => batch_index = 0
          /\ batch_index = Count(log, LAMBDA e : e.op = "loss.backward")
          /\ pc = "done" =>
                batch_index = cfg.max_epochs * Len(loaders.train_dataloader[1]))
    /\ [][/\ batch_index' >= batch_index
          /\ batch_index' - batch_index =
                Count(log', LAMBDA e : e.op = "loss.backward")
                    - Count(log, LAMBDA e : e.op = "loss.backward")
          /\ batch_index' - batch_index <= 1]_vars

\* a fit of two epochs over two training batches has returned: four batches
C15_Witness ==
    /\ pc = "done"
    /\ cfg.max_epochs = 2
    /\ Len(loaders.train_dataloader[1]) = 2
    /\ batch_index = 4

\* a dispatch or a handler call, which the log records with the counters seen
IsObserved(e) == e.op \in {"trigger_callbacks", "callback"}

\* the iteration of fit the k-th log entry belongs to: the training epochs begun
IterationOf(k) == Count(SubSeq(log, 1, k), LAMBDA e : e.op = "train_one_epoch")

(***************************************************************************)
(* C16: in a fit on a fresh Trainer the epoch counter is the number of     *)
(* iterations begun: 0 before the first, k from the start of the k-th      *)
(* iteration's training epoch on, max_epochs at return.  Every dispatch    *)
(* and every handler sees 0 at on_fit_start, max_epochs at on_fit_end, and *)
(* k at every event of the k-th iteration, be it of the training, the      *)
(* validation or the test pass.                                            *)
(***************************************************************************)
C16_EpochCounterPerIteration ==
    /\ log = << >> => epoch_index = 0
    /\ epoch_index = Count(log, LAMBDA e : e.op = "train_one_epoch")
    /\ pc = "done" => epoch_index = cfg.max_epochs
    /\ \A k \in 1..Len(log) :
          IsObserved(log[k]) =>
              log[k].seen.epoch_index =
                  CASE log[k].ev = ON_FIT_START -> 0
                    [] log[k].ev = ON_FIT_END -> cfg.max_epochs
                    [] OTHER -> IterationOf(k)

\* the second iteration of a fit with three producers: a handler of its test
\* pass has seen 2
C16_Witness ==
    /\ FullFit
    /\ pc = "done"
    /\ cfg.max_epochs = 2
    /\ \E k \in 1..Len(log) :
          /\ log[k].op = "callback" /\ log[k].ev = ON_VALID_EPOCH_END
          /\ log[k].seen.epoch_index = 2
          /\ Count(SubSeq(log, 1, k), LAMBDA e : e.op = "valid_one_epoch") = 4

\* the position of the latest dispatch of event before position k (0: none)
LatestDispatch(event, k) ==
    LET js == { j \in 1..(k-1) : IsDispatchOf(log[j], event) }
    IN IF js = {} THEN 0 ELSE CHOOSE j \in js : \A i \in js : i <= j

\* the collaborator calls logged strictly between positions j and k, in order
OpsBetween(j, k) ==
    LET sel == SelectSeq(SubSeq(log, j + 1, k - 1), LAMBDA e : ~IsObserved(e))
    IN [n \in 1..Len(sel) |-> sel[n].op]

\* the batch step as documented, for the configuration at hand
DocumentedBatchStep ==
    << "move_to_device", "model.forward", "criterion", "model.zero_grad", "loss.backward" >>
    \o (IF cfg.clip_grad_norm THEN << "clip_grad_norm_" >> ELSE << >>)
    \o << "optimizer.step" >>
    \o (IF cfg.scheduler /\ cfg.step_scheduler_on_batch_or_epoch = "batch"
        THEN << "scheduler.step" >> ELSE << >>)

(***************************************************************************)
(* C17: between the dispatch of on_train_batch_start and that of           *)
(* on_train_batch_end of every training batch the collaborators are called *)
(* in this order, each once: transfer, forward, criterion, zero_grad,      *)
(* backward, clip_grad_norm_ (exactly when clip parameters are             *)
(* configured), optimizer.step, scheduler.step (exactly when there is a    *)
(* scheduler and the granularity is "batch").  So the optimizer is stepped *)
(* once per training batch, after backward and clipping, and nowhere else. *)
(***************************************************************************)
C17_BatchStepOrder ==
    /\ \A k \in 1..Len(log) :
          IsDispatchOf(log[k], ON_TRAIN_BATCH_END) =>
              /\ LatestDispatch(ON_TRAIN_BATCH_START, k) > 0
              /\ OpsBetween(LatestDispatch(ON_TRAIN_BATCH_START, k), k) = DocumentedBatchStep
    /\ Count(log, LAMBDA e : e.op = "optimizer.step")
           = Count(log, LAMBDA e : IsDispatchOf(e, ON_TRAIN_BATCH_END))
    /\ Count(log, LAMBDA e : e.op = "optimizer.step")
           = Count(log, LAMBDA e : IsDispatchOf(e, ON_TRAIN_BATCH_START))

\* two training batches have run with clipping and a scheduler stepped per batch
C17_Witness ==
    /\ cfg.clip_grad_norm
    /\ cfg.scheduler
    /\ cfg.step_scheduler_on_batch_or_epoch = "batch"
    /\ Count(log, LAMBDA e : IsDispatchOf(e, ON_TRAIN_BATCH_END)) = 2
    /\ Count(log, LAMBDA e : e.op = "clip_grad_norm_") = 2
    /\ steps = [optimizer |-> 2, scheduler |-> 2]

\* the number of dispatches of event among the first k log entries: the number,
\* in the run, of the batch the k-th entry belongs to
BatchOf(event, k) == Count(SubSeq(log, 1, k), LAMBDA e : IsDispatchOf(e, event))

(***************************************************************************)
(* C18: the dispatch of on_train_batch_start for the n-th training batch   *)
(* of the run, and every handler it calls, sees batch counter n - 1; that  *)
(* of on_train_batch_end, and every handler it calls, sees n.  The         *)
(* increment comes after optimizer.step (and the per-batch scheduler       *)
(* step): when one of these raises, the batch is not counted.              *)
(***************************************************************************)
C18_BatchCounterSeenByHandlers ==
    /\ \A k \in 1..Len(log) :
          IsObserved(log[k]) =>
              /\ log[k].ev = ON_TRAIN_BATCH_START =>
                    log[k].seen.batch_index = BatchOf(ON_TRAIN_BATCH_START, k) - 1
              /\ log[k].ev = ON_TRAIN_BATCH_END =>
                    log[k].seen.batch_index = BatchOf(ON_TRAIN_BATCH_END, k)
    /\ batch_index = Count(log, LAMBDA e : IsDispatchOf(e, ON_TRAIN_BATCH_END))
    /\ steps.optimizer - batch_index =
           IF /\ log # << >>
              /\ log[Len(log)] = Entry("scheduler.step", "-", "raised", {})
              /\ cfg.step_scheduler_on_batch_or_epoch = "batch"
           THEN 1 ELSE 0

\* a handler registered on on_train_batch_end is called for the second batch and
\* sees 2; the dispatch of on_train_batch_start for that batch saw 1
C18_Witness ==
    /\ \E k \in 1..Len(log) :
          /\ log[k].op = "callback" /\ log[k].arg = "h1"
          /\ log[k].ev = ON_TRAIN_BATCH_END
          /\ log[k].seen.batch_index = 2
    /\ \E k \in 1..Len(log) :
          /\ log[k].op = "trigger_callbacks"
          /\ log[k].ev = ON_TRAIN_BATCH_START
          /\ log[k].seen.batch_index = 1

\* what an evaluation epoch may do
EvalOps ==
    { "trigger_callbacks", "callback", "model.eval", "move_to_device", "model.forward",
      "criterion", "update_metrics" }

ValidEvents ==
    { ON_VALID_EPOCH_START, ON_VALID_EPOCH_END, ON_VALID_BATCH_START, ON_VALID_BATCH_END }

\* a step that leaves the training progress as it was and logs only calls an
\* evaluation epoch may make
TrainingLeftAlone ==
    /\ batch_index' = batch_index
    /\ epoch_index' = epoch_index
    /\ steps' = steps
    /\ IsPrefix(log, log')
    /\ \A k \in (Len(log) + 1)..Len(log') :
          /\ log'[k].op \in EvalOps
          /\ IsObserved(log'[k]) =>
                /\ log'[k].ev \in ValidEvents
                /\ log'[k].seen.epoch_index = epoch_index
                /\ log'[k].seen.batch_index = batch_index

(***************************************************************************)
(* C19: no step of an evaluation epoch (valid_one_epoch over the           *)
(* validation or over the test producer) changes the batch counter, the    *)
(* epoch counter or the number of optimizer and scheduler steps, under     *)
(* either stepping granularity; the step calls no zero_grad, backward,     *)
(* clip_grad_norm_, optimizer.step or scheduler.step, and every event it   *)
(* dispatches is a valid_* event, whose handlers see the counters as they  *)
(* were.                                                                   *)
(***************************************************************************)
C19_EvaluationLeavesTrainingAlone ==
    [][(pc \in {"valid_one_epoch", "valid_loop"}) => TrainingLeftAlone]_vars

\* the validation epoch of a fit has returned, after a training epoch that
\* stepped the optimizer and, under "epoch", the scheduler
C19_Witness ==
    /\ pc = "fit_test"
    /\ losses.valid_loss # None
    /\ cfg.scheduler
    /\ cfg.step_scheduler_on_batch_or_epoch = "epoch"
    /\ steps.optimizer = batch_index
    /\ batch_index >= 1
    /\ steps.scheduler >= 1
    /\ training = FALSE

BatchEvents ==
    { ON_TRAIN_BATCH_START, ON_TRAIN_BATCH_END, ON_VALID_BATCH_START, ON_VALID_BATCH_END }

\* the dispatches and the mode switches of the latest epoch function called, in
\* order: event names and "model.train" / "model.eval"
IsEpochMark(e) ==
    \/ e.op = "trigger_callbacks" /\ e.ev # ON_FIT_END
    \/ e.op \in {"model.train", "model.eval"}

EpochTrace ==
    LET sel == SelectSeq(SubSeq(log, LastEpochCall + 1, Len(log)), IsEpochMark)
    IN [k \in 1..Len(sel) |-> IF sel[k].op = "trigger_callbacks" THEN sel[k].ev ELSE sel[k].op]

\* the documented course of an epoch over B batches
DocumentedEpoch(fn, B) ==
    IF fn = "train_one_epoch"
    THEN (<< ON_TRAIN_EPOCH_START, "model.train" >>
            \o Repeat(<< ON_TRAIN_BATCH_START, ON_TRAIN_BATCH_END >>, B))
            \o << ON_TRAIN_EPOCH_END >>
    ELSE (<< ON_VALID_EPOCH_START, "model.eval" >>
            \o Repeat(<< ON_VALID_BATCH_START, ON_VALID_BATCH_END >>, B))
            \o << ON_VALID_EPOCH_END >>

\* the model's calls since the latest epoch function was called: one per batch
BatchesTaken ==
    Count(SubSeq(log, LastEpochCall + 1, Len(log)), LAMBDA e : e.op = "model.forward")

(***************************************************************************)
(* C20: an epoch over a producer of B >= 1 batches dispatches epoch_start, *)
(* sets the model's mode, then dispatches batch_start and batch_end in     *)
(* turn, once per batch, then epoch_end: at every moment what it has done  *)
(* is a beginning of that course, and when it returns it is the whole of   *)
(* it, with B batches taken from the producer.  No batch event is          *)
(* dispatched before the first epoch starts.                               *)
(***************************************************************************)
C20_EpochEventOrder ==
    /\ LastEpochCall = 0 =>
          Count(log, LAMBDA e : e.op = "trigger_callbacks" /\ e.ev \in BatchEvents) = 0
    /\ (LastEpochCall > 0 /\ Len(frame.dataloader) >= 1) =>
          LET course == DocumentedEpoch(log[LastEpochCall].op, Len(frame.dataloader))
          IN /\ IsPrefix(EpochTrace, course)
             /\ BatchesTaken <= Len(frame.dataloader)
             /\ EpochReturned =>
                   /\ EpochTrace = course
                   /\ BatchesTaken = Len(frame.dataloader)
                   /\ frame.i = Len(frame.dataloader)

\* train_one_epoch over three batches has returned
C20_Witness ==
    /\ EpochReturned
    /\ log[LastEpochCall].op = "train_one_epoch"
    /\ Len(frame.dataloader) = 3
    /\ Len(EpochTrace) = 9
    /\ training = TRUE

\* the positions of the log since the latest epoch function was called
ThisEpoch == (LastEpochCall + 1)..Len(log)

EpochEndKey(event) ==
    IF event = ON_TRAIN_EPOCH_END
    THEN "train_this_epoch_average_loss"
    ELSE "valid_this_epoch_average_loss"

(***************************************************************************)
(* C21: the epoch's average loss is in the metrics before the epoch-end    *)
(* event is dispatched and after the scheduler's per-epoch step.  The      *)
(* dispatch of on_train_epoch_end (of on_valid_epoch_end) and every        *)
(* handler it calls see, under "train_this_epoch_average_loss" (under      *)
(* "valid_this_epoch_average_loss"), the sample-weighted average of the    *)
(* producer of the epoch that is ending, be it the training, validation    *)
(* or test producer; update_metrics is the call just before the dispatch,  *)
(* and every scheduler.step() of the epoch comes before it.                *)
(***************************************************************************)
C21_AverageRecordedBeforeEpochEnd ==
    \A k \in ThisEpoch :
        (IsObserved(log[k]) /\ log[k].ev \in {ON_TRAIN_EPOCH_END, ON_VALID_EPOCH_END}) =>
            LET d == LatestDispatch(log[k].ev, k + 1)
                seen == log[k].seen.metrics_dict
                key == EpochEndKey(log[k].ev)
            IN /\ d \in ThisEpoch /\ d > 1
               /\ log[d - 1].op = "update_metrics"
               /\ \A j \in ThisEpoch : log[j].op = "scheduler.step" => j < d - 1
               /\ (cfg.scheduler /\ log[d].ev = ON_TRAIN_EPOCH_END) =>
                      \E j \in ThisEpoch : log[j].op = "scheduler.step"
               /\ key \in DOMAIN seen
               /\ seen[key] = WeightedAverage(frame.dataloader)

\* the test pass of the second iteration ends, after a validation pass whose
\* average is another: the handler of on_valid_epoch_end sees the test pass's
C21_Witness ==
    /\ pc = "fit_loop" /\ it = 2 /\ err = "none"
    /\ cfg.scheduler /\ cfg.step_scheduler_on_batch_or_epoch = "epoch"
    /\ Truthy(loaders.valid_dataloader) /\ Truthy(loaders.test_dataloader)
    /\ WeightedAverage(loaders.valid_dataloader[1]) # WeightedAverage(loaders.test_dataloader[1])
    /\ log[Len(log)].op = "callback" /\ log[Len(log)].ev = ON_VALID_EPOCH_END
    /\ log[Len(log)].seen.metrics_dict["valid_this_epoch_average_loss"] =
           WeightedAverage(loaders.test_dataloader[1])
    /\ log[Len(log)].seen.metrics_dict["train_this_epoch_average_loss"] =
           WeightedAverage(loaders.train_dataloader[1])

\* the calls of valid_one_epoch that fit has made for the producer named
PassesRun(name) == Count(log, LAMBDA e : e.op = "valid_one_epoch" /\ e.arg = name)

(***************************************************************************)
(* C22: between the iterations of a fit that has not failed, and when it   *)
(* has returned, a validation epoch has been run in every iteration begun  *)
(* if a validation producer was supplied, whatever its length, and in none *)
(* if it was not; the same holds of the test pass and the test producer.   *)
(* A supplied producer of zero batches is therefore never passed over in   *)
(* silence.                                                                *)
(***************************************************************************)
C22_SuppliedProducerIsRun ==
    (pc \in {"fit_loop", "done"} /\ err = "none") =>
        /\ PassesRun("valid_loader") = IF loaders.valid_dataloader # None THEN it ELSE 0
        /\ PassesRun("test_loader") = IF loaders.test_dataloader # None THEN it ELSE 0

\* the progress records emitted so far
RecordsEmitted == Count(log, LAMBDA e : e.op = "logger.info")

(***************************************************************************)
(* C23: in a fit run that has not failed, the progress records emitted so  *)
(* far are one for every multiple of the log cadence N that the run-wide   *)
(* batch counter has reached: floor(batch_index / N) of them after any     *)
(* batch, hence floor(E * B / N) when E epochs of B batches have run.      *)
(***************************************************************************)
C23_LogCadenceFollowsRunCounter ==
    err = "none" => RecordsEmitted = batch_index \div cfg.log_every_n_steps

\* the handlers of a list that leave the registry alone
Keeping(list) == SelectSeq(list, LAMBDA h : ~Unregisters(h))

(***************************************************************************)
(* C24: a dispatch of event e in which handlers of e unregister themselves *)
(* still calls every other handler that was registered on e when it began, *)
(* exactly once and in registration order: the handlers called, left aside *)
(* those that unregister themselves, are the handlers registered before,   *)
(* left aside the same.                                                    *)
(***************************************************************************)
C24_DispatchRobustToRemoval ==
    \A m \in 1..Len(calls) :
        (IsTrigger(m) /\ calls[m].err = "none") =>
            Keeping(HandlersOf(calls[m])) = Keeping(calls[m].before)

\* fit was called with producers that are each absent or non-empty, the training
\* producer being there when an epoch is to run
ProducersNonEmpty ==
    /\ cfg.max_epochs > 0 => Truthy(loaders.train_dataloader)
    /\ \A l \in {loaders.valid_dataloader, loaders.test_dataloader} : l = None \/ Truthy(l)

FitCalled == pc # "idle" /\ ProducersNonEmpty

\* fit has returned the TrainingState, and on_fit_end is the last event of the log
FitReturned ==
    /\ pc = "done" /\ err = "none"
    /\ returned = Some("state")
    /\ it = cfg.max_epochs
    /\ Count(log, LAMBDA e : IsDispatchOf(e, ON_FIT_END)) = 1
    /\ LatestDispatch(ON_FIT_END, Len(log) + 1) > 0
    /\ \A k \in 1..Len(log) :
           (log[k].op = "trigger_callbacks" /\ log[k].ev # ON_FIT_END)
               => k < LatestDispatch(ON_FIT_END, Len(log) + 1)

(***************************************************************************)
(* C25: fit terminates.  For every max_epochs, producers that are absent   *)
(* or non-empty, and handlers and collaborators that do not raise, a fit   *)
(* that was called eventually dispatches on_fit_end once, after every      *)
(* other event, and returns the TrainingState given at construction; once  *)
(* it has returned nothing more is dispatched and nothing changes.         *)
(***************************************************************************)
C25_FitTerminates ==
    /\ FitCalled ~> FitReturned
    /\ [](pc = "done" => FitReturned)
    /\ [][pc # "done"]_vars

\* a fit of two epochs with validation and test producers has returned
C25_Witness ==
    /\ FitReturned
    /\ cfg.max_epochs = 2
    /\ Truthy(loaders.valid_dataloader) /\ Truthy(loaders.test_dataloader)
    /\ Len(loaders.train_dataloader[1]) = 2
    /\ epoch_index = 2

====
